---- MODULE Spec2Model ----
(***************************************************************************)
(* booksearch: the XML response normalizer (narou_api._parse_xml_response), *)
(* the catalog client (narou_api.search_books, find_libraries_for_book) and *)
(* the Streamlit orchestrator (app.py).                                     *)
(*                                                                          *)
(* A text is a sequence of one-character strings; <<>> is "no text"         *)
(* (Element.text is None or '').  A document is a sequence of tokens        *)
(* (start tag, end tag, character data); an element tree is a sequence of   *)
(* nodes in document order, each naming its parent by index (0: the root).  *)
(***************************************************************************)
EXTENDS Integers, Sequences, FiniteSets, TLC

VARIABLES
    pc,            \* position of the caller ("write", "call", "done") or of the
                   \* script run of app.py ("idle", "search", "tail")
    doc,           \* the element tree the document under test was written from
    xml_string,    \* argument xml_string of _parse_xml_response
    items,         \* the list _parse_xml_response returned
    raised,        \* the exception that left the call, None when it returned
    call,          \* the catalog client call made last: function and arguments
    response,      \* what the network did with the request of that call
    http_calls,    \* number of requests.get calls issued so far
    NAROU_API_KEY,        \* app.py: os.getenv("NAROU_API_KEY")
    OPENAI_API_KEY,       \* app.py: os.getenv("OPENAI_API_KEY")
    search_query,         \* st.session_state.search_query
    search_results,       \* st.session_state.search_results
    selected_book_isbn,   \* st.session_state.selected_book_isbn
    library_locations,    \* st.session_state.library_locations
    error_message,        \* st.session_state.error_message
    loading,              \* st.session_state.loading
    user_input,           \* the text of the form in the current script run
    gpt_analysis,         \* what get_search_terms_from_gpt returned in the last submit
    narou_query,          \* the query chosen by the last submit
    libraries_seoul,      \* result of the region '11' lookup of the last round
    libraries_gyeonggi,   \* result of the region '31' lookup of the last round
    lookup_exc,           \* the exception the last lookup round caught, None if none
    requests,             \* the GET requests issued since the last UI event
    displayed             \* the frame handed to st.map in the last script run

clientVars == <<doc, xml_string, items, raised, call, response, http_calls>>

appVars == <<NAROU_API_KEY, OPENAI_API_KEY, search_query, search_results,
             selected_book_isbn, library_locations, error_message, loading,
             user_input, gpt_analysis, narou_query, libraries_seoul,
             libraries_gyeonggi, lookup_exc, requests, displayed>>

vars == <<pc, clientVars, appVars>>

----------------------------------------------------------------------------
(* Bounds *)

MaxNodes == 5      \* elements of a document under test
MaxCut == 1        \* tokens a truncated document under test has lost
MaxCalls == 3      \* catalog client calls in one behaviour
MaxBooks == 2      \* Book Records in one search response
MaxLibs == 1       \* Library Records in one holdings response

----------------------------------------------------------------------------
(* Values *)

None == "None"

WS == {" "}

\* str.strip(): drop leading and trailing whitespace.
RECURSIVE LStrip(_)
LStrip(s) ==
    IF s # <<>> /\ Head(s) \in WS THEN LStrip(Tail(s)) ELSE s

RECURSIVE RStrip(_)
RStrip(s) ==
    IF s # <<>> /\ s[Len(s)] \in WS THEN RStrip(SubSeq(s, 1, Len(s) - 1)) ELSE s

Strip(s) == RStrip(LStrip(s))

IsSpace(s) == \A i \in 1..Len(s) : s[i] \in WS

Open(t)  == [k |-> "open",  tag |-> t,  s |-> <<>>]
Close(t) == [k |-> "close", tag |-> t,  s |-> <<>>]
Text(s)  == [k |-> "text",  tag |-> "", s |-> s]

Node(t, p, s) == [tag |-> t, parent |-> p, text |-> s]

\* Python values: None, a str (its text), the float nan.
PyNone == [t |-> "NoneType", v |-> <<>>]
PyStr(s) == [t |-> "str", v |-> s]
NaN == [t |-> "float", v |-> <<"n", "a", "n">>]

\* An argument that is a string (a token sequence), and one that is not.
Str(toks) == [type |-> "str", v |-> toks]
NoneArg == [type |-> "NoneType", v |-> <<>>]

----------------------------------------------------------------------------
(* xml.etree.ElementTree as narou_api.py uses it *)

\* ET.fromstring: the tree builder over the token stream.  st is the stack of
\* open elements (indices into nodes), top last.  Character data goes to the
\* text of the open element while it has no child yet, and to the tail of its
\* last child afterwards (the tail is never read by the program).
RECURSIVE Build(_, _, _, _)
Build(toks, i, nodes, st) ==
    IF i > Len(toks)
    THEN [ok |-> (st = <<>> /\ nodes # <<>>), nodes |-> nodes]
    ELSE LET t == toks[i] IN
         CASE t.k = "open" ->
                IF st = <<>> /\ nodes # <<>>
                THEN [ok |-> FALSE, nodes |-> nodes]      \* junk after document element
                ELSE LET p == IF st = <<>> THEN 0 ELSE st[Len(st)] IN
                     Build(toks, i + 1, Append(nodes, Node(t.tag, p, <<>>)),
                           Append(st, Len(nodes) + 1))
           [] t.k = "close" ->
                IF st = <<>> \/ nodes[st[Len(st)]].tag # t.tag
                THEN [ok |-> FALSE, nodes |-> nodes]      \* mismatched tag
                ELSE Build(toks, i + 1, nodes, SubSeq(st, 1, Len(st) - 1))
           [] OTHER ->
                IF st = <<>>
                THEN IF IsSpace(t.s)
                     THEN Build(toks, i + 1, nodes, st)
                     ELSE [ok |-> FALSE, nodes |-> nodes] \* text outside the root
                ELSE LET top == st[Len(st)] IN
                     IF top = Len(nodes)
                     THEN Build(toks, i + 1,
                                [nodes EXCEPT ![top].text = @ \o t.s], st)
                     ELSE Build(toks, i + 1, nodes, st)

\* A parser that hands back what it has built when the document breaks off.
fromstringLenient(s) ==
    IF s.type # "str"
    THEN [ok |-> FALSE, nodes |-> <<>>]
    ELSE LET b == Build(s.v, 1, <<>>, <<>>) IN [ok |-> b.nodes # <<>>, nodes |-> b.nodes]

\* ET.fromstring(xml_string): a ParseError unless the document is well formed,
\* a TypeError when the argument is no string.
fromstring(s) ==
    IF s.type # "str"
    THEN [ok |-> FALSE, nodes |-> <<>>]
    ELSE LET b == Build(s.v, 1, <<>>, <<>>) IN
         IF b.ok THEN b ELSE [ok |-> FALSE, nodes |-> <<>>]

\* Indices of the immediate children of element e, in document order.
RECURSIVE ChildrenFrom(_, _, _)
ChildrenFrom(nodes, e, i) ==
    IF i > Len(nodes) THEN <<>>
    ELSE IF nodes[i].parent = e
         THEN <<i>> \o ChildrenFrom(nodes, e, i + 1)
         ELSE ChildrenFrom(nodes, e, i + 1)

Children(nodes, e) == ChildrenFrom(nodes, e, 1)

RECURSIVE SelectTag(_, _, _)
SelectTag(nodes, idxs, tag) ==
    IF idxs = <<>> THEN <<>>
    ELSE IF nodes[Head(idxs)].tag = tag
         THEN <<Head(idxs)>> \o SelectTag(nodes, Tail(idxs), tag)
         ELSE SelectTag(nodes, Tail(idxs), tag)

\* Element.findall(tag): the immediate children of e named tag.
findall(nodes, e, tag) == SelectTag(nodes, Children(nodes, e), tag)

\* Element and its ancestors, in a parsed tree.
RECURSIVE Path(_, _)
Path(nodes, e) == IF e = 0 THEN {} ELSE {e} \cup Path(nodes, nodes[e].parent)

\* A find that searches the whole subtree of e (the path './/tag').
findDeep(nodes, e, tag) ==
    LET f == {i \in 1..Len(nodes) : i # e /\ nodes[i].tag = tag /\ e \in Path(nodes, i)}
    IN IF f = {} THEN 0 ELSE CHOOSE i \in f : \A j \in f : i <= j

\* Element.find(tag): the first immediate child of e named tag, 0 for None.
find(nodes, e, tag) ==
    LET f == findall(nodes, e, tag) IN IF f = <<>> THEN 0 ELSE f[1]

EmptyDict == [x \in {} |-> <<>>]

\* item_data[k] = v
Put(d, k, v) == [x \in DOMAIN d \cup {k} |-> IF x = k THEN v ELSE d[x]]

\* for child in item_elem: item_data[child.tag] = child.text.strip() if child.text else ""
RECURSIVE ItemData(_, _, _)
ItemData(nodes, kids, item_data) ==
    IF kids = <<>> THEN item_data
    ELSE LET child == nodes[Head(kids)]
             text_content == IF child.text # <<>> THEN Strip(child.text) ELSE <<>>
         IN ItemData(nodes, Tail(kids), Put(item_data, child.tag, text_content))

\* The loop without its 'if item_data' test.
RECURSIVE ItemsLoopKeepEmpty(_, _, _)
ItemsLoopKeepEmpty(nodes, item_elements, acc) ==
    IF item_elements = <<>> THEN acc
    ELSE ItemsLoopKeepEmpty(nodes, Tail(item_elements),
            Append(acc, ItemData(nodes, Children(nodes, Head(item_elements)), EmptyDict)))

\* for item_elem in item_elements: ... if item_data: items.append(item_data)
RECURSIVE ItemsLoop(_, _, _)
ItemsLoop(nodes, item_elements, acc) ==
    IF item_elements = <<>> THEN acc
    ELSE LET item_data == ItemData(nodes, Children(nodes, Head(item_elements)), EmptyDict)
         IN ItemsLoop(nodes, Tail(item_elements),
                      IF DOMAIN item_data # {} THEN Append(acc, item_data) ELSE acc)

\* The lookup without its fallback to the root.
ResultsElementNoFallback(nodes, result_tag) == find(nodes, 1, result_tag)

\* results_element = root.find(result_tag), the root itself when that is None.
ResultsElement(nodes, result_tag) ==
    LET root == 1
        results_element == find(nodes, root, result_tag)
    IN IF results_element = 0 THEN root ELSE results_element

\* The try block of _parse_xml_response: the exception it ends with (None
\* when it runs to its end) and the items appended by then.
ParseBody(s, result_tag, item_tag) ==
    LET p == fromstring(s) IN
    IF ~p.ok
    THEN [exc |-> IF s.type # "str" THEN "TypeError" ELSE "ParseError", items |-> <<>>]
    ELSE LET results_element == ResultsElement(p.nodes, result_tag)
             item_elements == findall(p.nodes, results_element, item_tag)
         IN [exc |-> None, items |-> ItemsLoop(p.nodes, item_elements, <<>>)]

\* The except clauses of _parse_xml_response: ET.ParseError, then Exception.
ParseCaught(exc) == exc \in {"ParseError", "TypeError"}

\* _parse_xml_response(xml_string, result_tag, item_tag): what it returns and
\* the exception that leaves it.
_parse_xml_response(s, result_tag, item_tag) ==
    LET b == ParseBody(s, result_tag, item_tag) IN
    [raised |-> IF b.exc = None \/ ParseCaught(b.exc) THEN None ELSE b.exc,
     value  |-> b.items]

----------------------------------------------------------------------------
(* narou_api.py: the catalog client *)

\* Python truth of a key, identifier or region code: None and '' are false,
\* a non-empty str and nan are true.
Falsy(x) == x.t = "NoneType" \/ (x.t = "str" /\ x.v = <<>>)

NoCall == [fn |-> "", api_key |-> PyNone, isbn13 |-> PyNone, region_code |-> PyNone]
NoResponse == [kind |-> "", exc |-> None, status |-> 0, text |-> NoneArg]

\* requests.get raised exc.
Failed(exc) == [kind |-> "raise", exc |-> exc, status |-> 0, text |-> NoneArg]
\* requests.get returned a response.
Answered(status, text) == [kind |-> "response", exc |-> None, status |-> status, text |-> text]

\* The subclasses of requests.exceptions.RequestException met here.
IsRequestException(exc) ==
    exc \in {"requests.ConnectionError", "requests.Timeout", "requests.HTTPError"}

\* A raise_for_status that raises for nothing.
raise_for_statusNever(status) == FALSE

\* response.raise_for_status(): an HTTPError for the 4xx and 5xx codes.
raise_for_status(status) == 400 <= status /\ status < 600

\* The try block of search_books and of find_libraries_for_book: the request,
\* the status check, the normalizer.
TryRequest(net, result_tag, item_tag) ==
    IF net.kind = "raise" THEN [exc |-> net.exc, value |-> <<>>]
    ELSE IF raise_for_status(net.status)
         THEN [exc |-> "requests.HTTPError", value |-> <<>>]
         ELSE LET r == _parse_xml_response(net.text, result_tag, item_tag)
              IN [exc |-> r.raised, value |-> r.value]

\* Handlers that swallow every failure of the request.
HandleRequestSwallow(b) ==
    [raised |-> None, value |-> IF b.exc = None THEN b.value ELSE <<>>, gets |-> 1]

\* Handlers without the catch-all 'except Exception'.
HandleRequestNoCatchAll(b) ==
    IF b.exc = None THEN [raised |-> None, value |-> b.value, gets |-> 1]
    ELSE IF IsRequestException(b.exc)
         THEN [raised |-> "ConnectionError", value |-> <<>>, gets |-> 1]
         ELSE [raised |-> b.exc, value |-> <<>>, gets |-> 1]

\* The except clauses of both functions: a RequestException is raised again
\* as ConnectionError, any other Exception gives the empty list.
HandleRequest(b) ==
    IF b.exc = None THEN [raised |-> None, value |-> b.value, gets |-> 1]
    ELSE IF IsRequestException(b.exc)
         THEN [raised |-> "ConnectionError", value |-> <<>>, gets |-> 1]
         ELSE [raised |-> None, value |-> <<>>, gets |-> 1]

\* The checks of find_libraries_for_book without the one on the key.
LibraryArgsOkNoKeyCheck(isbn13, api_key, region_code) ==
    ~Falsy(isbn13) /\ ~Falsy(region_code)

\* search_books: 'if not api_key: raise ValueError'.
SearchArgsOk(api_key) == ~Falsy(api_key)

\* find_libraries_for_book: the three 'if not ...: raise ValueError' checks.
LibraryArgsOk(isbn13, api_key, region_code) ==
    ~Falsy(api_key) /\ ~Falsy(isbn13) /\ ~Falsy(region_code)

Rejected == [raised |-> "ValueError", value |-> <<>>, gets |-> 0]

\* search_books(query, api_key) when the network does net: the exception that
\* leaves it, the list it returns, the GET requests it issued.
search_books(api_key, net) ==
    IF ~SearchArgsOk(api_key) THEN Rejected
    ELSE HandleRequest(TryRequest(net, "docs", "doc"))

\* find_libraries_for_book(isbn13, api_key, region_code) when the network does net.
find_libraries_for_book(isbn13, api_key, region_code, net) ==
    IF ~LibraryArgsOk(isbn13, api_key, region_code) THEN Rejected
    ELSE HandleRequest(TryRequest(net, "libs", "lib"))

----------------------------------------------------------------------------
(* pandas as app.py and map_utils.py use it.  A frame is its set of column  *)
(* names and its rows, each row a function from the columns to cells; a     *)
(* cell is a str, the float nan, or a float written in canonical decimal.   *)

Digits == {"0", "1", "2", "3", "4", "5", "6", "7", "8", "9"}

Float(s) == [t |-> "float", v |-> s]

AllDigits(s) == \A i \in 1..Len(s) : s[i] \in Digits

\* Position of the first '.', Len(s) + 1 when there is none.
RECURSIVE DotAt(_, _)
DotAt(s, i) == IF i > Len(s) \/ s[i] = "." THEN i ELSE DotAt(s, i + 1)

RECURSIVE DropLeadingZeros(_)
DropLeadingZeros(s) ==
    IF Len(s) > 1 /\ Head(s) = "0" THEN DropLeadingZeros(Tail(s)) ELSE s

RECURSIVE DropTrailingZeros(_)
DropTrailingZeros(s) ==
    IF s # <<>> /\ s[Len(s)] = "0"
    THEN DropTrailingZeros(SubSeq(s, 1, Len(s) - 1)) ELSE s

\* The text is a decimal numeral: an optional sign, digits, at most one '.'.
IsNumeral(s) ==
    LET u == IF s # <<>> /\ Head(s) = "-" THEN Tail(s) ELSE s
        d == DotAt(u, 1)
    IN /\ AllDigits(SubSeq(u, 1, d - 1))
       /\ AllDigits(SubSeq(u, d + 1, Len(u)))
       /\ Len(u) - (IF d <= Len(u) THEN 1 ELSE 0) >= 1

\* The float a numeral denotes, written without redundant zeros.
NumeralValue(s) ==
    LET neg == s # <<>> /\ Head(s) = "-"
        u == IF neg THEN Tail(s) ELSE s
        d == DotAt(u, 1)
        int == DropLeadingZeros(IF d = 1 THEN <<"0">> ELSE SubSeq(u, 1, d - 1))
        frac == DropTrailingZeros(SubSeq(u, d + 1, Len(u)))
    IN Float((IF neg THEN <<"-">> ELSE <<>>) \o int
             \o (IF frac = <<>> THEN <<>> ELSE <<".">> \o frac))

\* pd.to_numeric(..., errors='coerce') on one cell: nan for what is no number.
to_numeric(cell) ==
    IF cell.t = "str"
    THEN IF IsNumeral(cell.v) THEN NumeralValue(cell.v) ELSE NaN
    ELSE cell

EmptyDataFrame == [columns |-> {}, rows |-> <<>>]

\* pd.DataFrame(list of dicts): the columns are the keys met, a key missing
\* from a dict gives nan.
DataFrame(dicts) ==
    LET cols == UNION {DOMAIN dicts[i] : i \in 1..Len(dicts)} IN
    [columns |-> cols,
     rows |-> [i \in 1..Len(dicts) |->
                 [c \in cols |-> IF c \in DOMAIN dicts[i] THEN PyStr(dicts[i][c]) ELSE NaN]]]

\* DataFrame.empty
IsEmpty(df) == df.rows = <<>> \/ df.columns = {}

\* df[c] = pd.to_numeric(df[c], errors='coerce')
NumericColumn(df, c) ==
    [df EXCEPT !.rows = [i \in 1..Len(df.rows) |->
                            [df.rows[i] EXCEPT ![c] = to_numeric(df.rows[i][c])]]]

RECURSIVE SelectRows(_, _, _)
SelectRows(rows, keep, i) ==
    IF i > Len(rows) THEN <<>>
    ELSE (IF i \in keep THEN <<rows[i]>> ELSE <<>>) \o SelectRows(rows, keep, i + 1)

\* df.dropna(subset=..., inplace=True)
dropna(df, subset) ==
    [df EXCEPT !.rows =
        SelectRows(df.rows,
                   {i \in 1..Len(df.rows) : \A c \in subset : df.rows[i][c] # NaN}, 1)]

\* A drop_duplicates that drops nothing.
drop_duplicatesNothing(df, c) == df

\* df.drop_duplicates(subset=[c], inplace=True): the first row of each value
\* stays, nan counting as one value.
drop_duplicates(df, c) ==
    [df EXCEPT !.rows =
        SelectRows(df.rows,
                   {i \in 1..Len(df.rows) :
                       \A j \in 1..(i - 1) : df.rows[j][c] # df.rows[i][c]}, 1)]

----------------------------------------------------------------------------
(* openai_utils.py: the query interpreter.  A JSON scalar is a str or an   *)
(* int, [t, v] with v its text; a field of the reply object is a list of   *)
(* scalars, a scalar, or absent.                                            *)

PyInt(s) == [t |-> "int", v |-> s]

EmptyAnalysis == [keywords |-> <<>>, titles |-> <<>>, narou_query |-> PyStr(<<>>)]

\* The 'Validate the structure' lines: a field of the wrong type, or an
\* absent one, is replaced by the empty list or the empty string; the query
\* is stripped.
ValidateAnalysis(parsed_result) ==
    [keywords |-> IF parsed_result.keywords.t = "list"
                  THEN parsed_result.keywords.items ELSE <<>>,
     titles |-> IF parsed_result.titles.t = "list"
                THEN parsed_result.titles.items ELSE <<>>,
     narou_query |-> IF parsed_result.narou_query.t = "str"
                     THEN PyStr(Strip(parsed_result.narou_query.v)) ELSE PyStr(<<>>)]

\* get_search_terms_from_gpt(user_query, api_key) when the language model
\* does llm: the exception that leaves it and the mapping it returns.
\*   "raise":    the API call raised
\*   "object":   the content is a JSON object
\*   "wrapped":  the content is text around a JSON object (regex fallback)
\*   "json":     the content is JSON but no object (.get raises AttributeError)
\*   "garbage":  the content holds no JSON object, or is None
get_search_terms_from_gpt(api_key, llm) ==
    IF Falsy(api_key) THEN [raised |-> "ValueError", value |-> EmptyAnalysis]
    ELSE IF llm.kind \in {"object", "wrapped"}
         THEN [raised |-> None, value |-> ValidateAnalysis(llm.parsed_result)]
         ELSE [raised |-> None, value |-> EmptyAnalysis]

----------------------------------------------------------------------------
(* The documents under test *)

RootTag == "response"
GroupTag == "docs"
ItemTag == "doc"

\* The elements a response is written from: the group, an item, and fields
\* with and without text.
NodeKinds ==
    {<<GroupTag, <<>>>>, <<ItemTag, <<>>>>,
     <<"isbn13", <<>>>>, <<"isbn13", <<" ", "x">>>>, <<"bookname", <<"y", " ">>>>}

\* Element e and its ancestors.
RECURSIVE Ancestors(_, _)
Ancestors(t, e) == IF e = 0 THEN {} ELSE {e} \cup Ancestors(t, t[e].parent)

RECURSIVE CloseAll(_, _)
CloseAll(t, st) ==
    IF st = <<>> THEN <<>>
    ELSE <<Close(t[st[Len(st)]].tag)>> \o CloseAll(t, SubSeq(st, 1, Len(st) - 1))

\* The document text of tree t: start tag, text, children, end tag.
RECURSIVE Write(_, _, _)
Write(t, i, st) ==
    IF i > Len(t) THEN CloseAll(t, st)
    ELSE IF st # <<>> /\ st[Len(st)] # t[i].parent
         THEN <<Close(t[st[Len(st)]].tag)>> \o Write(t, i, SubSeq(st, 1, Len(st) - 1))
         ELSE <<Open(t[i].tag)>>
              \o (IF t[i].text # <<>> THEN <<Text(t[i].text)>> ELSE <<>>)
              \o Write(t, i + 1, Append(st, i))

Serialize(t) == Write(t, 1, <<>>)

\* The response of the service for a list of records, each a sequence of
\* <<field name, text>> pairs: root, group, one item per record, its fields.
RECURSIVE FieldNodes(_, _)
FieldNodes(fields, p) ==
    IF fields = <<>> THEN <<>>
    ELSE <<Node(Head(fields)[1], p, Head(fields)[2])>> \o FieldNodes(Tail(fields), p)

RECURSIVE RecordNodes(_, _, _)
RecordNodes(item_tag, recs, n) ==
    IF recs = <<>> THEN <<>>
    ELSE <<Node(item_tag, 2, <<>>)>> \o FieldNodes(Head(recs), n + 1)
         \o RecordNodes(item_tag, Tail(recs), n + 1 + Len(Head(recs)))

TreeOf(result_tag, item_tag, recs) ==
    <<Node(RootTag, 0, <<>>), Node(result_tag, 1, <<>>)>> \o RecordNodes(item_tag, recs, 2)

XmlOf(result_tag, item_tag, recs) == Str(Serialize(TreeOf(result_tag, item_tag, recs)))

\* A document that breaks off before its last end tag.
Truncated(x) == Str(SubSeq(x.v, 1, Len(x.v) - 1))

----------------------------------------------------------------------------
(* app.py: the orchestrator.  A script run is read in three parts: the main *)
(* logic of a submit (steps 1 to 3), the book cards with their buttons, and *)
(* step 4 with the map.                                                      *)

NoList == [t |-> "NoneType", v |-> <<>>]
List(l) == [t |-> "list", v |-> l]
NoFrame == [t |-> "NoneType", v |-> EmptyDataFrame]
Frame(df) == [t |-> "DataFrame", v |-> df]

\* The session state of lines 121-132, before any event.
AppNotStarted ==
    /\ NAROU_API_KEY = PyNone
    /\ OPENAI_API_KEY = PyNone
    /\ search_query = <<>>
    /\ search_results = NoList
    /\ selected_book_isbn = PyNone
    /\ library_locations = NoFrame
    /\ error_message = None
    /\ loading = FALSE
    /\ user_input = <<>>
    /\ gpt_analysis = EmptyAnalysis
    /\ narou_query = PyNone
    /\ libraries_seoul = <<>>
    /\ libraries_gyeonggi = <<>>
    /\ lookup_exc = None
    /\ requests = <<>>
    /\ displayed = NoFrame

\* " ".join(keywords)
RECURSIVE Join(_)
Join(l) ==
    IF l = <<>> THEN <<>>
    ELSE IF Len(l) = 1 THEN l[1].v
         ELSE l[1].v \o <<" ">> \o Join(Tail(l))

\* A choice without the fallback to the raw input.
OrUserInputNever(q, input) == q

\* Lines 172-176: the query is kept when it is true, the raw input otherwise.
OrUserInput(q, input) == IF ~Falsy(q) THEN q ELSE PyStr(input)

\* Lines 163-176: the query chosen from the analysis g and the raw input, or
\* the exception the choice raised (join over a keyword that is no str).
ChooseQuery(g, input) ==
    IF Falsy(g.narou_query) /\ g.keywords # <<>>
    THEN IF \A i \in 1..Len(g.keywords) : g.keywords[i].t = "str"
         THEN [exc |-> None, q |-> OrUserInput(PyStr(Join(g.keywords)), input)]
         ELSE [exc |-> "TypeError", q |-> PyNone]
    ELSE IF Falsy(g.narou_query) /\ g.titles # <<>>
         THEN [exc |-> None, q |-> OrUserInput(g.titles[1], input)]
         ELSE [exc |-> None, q |-> OrUserInput(g.narou_query, input)]

\* Lines 163-182 once get_search_terms_from_gpt has returned or raised g.
ConsumeAnalysis(g, input) ==
    IF g.raised # None
    THEN [exc |-> g.raised, analysis |-> EmptyAnalysis, q |-> PyNone]
    ELSE [exc |-> ChooseQuery(g.value, input).exc, analysis |-> g.value,
          q |-> ChooseQuery(g.value, input).q]

\* Steps 1 and 2 (lines 157-182): the exception caught, the analysis, the query.
InterpretStep(input, llm) ==
    IF Falsy(OPENAI_API_KEY)
    THEN [exc |-> "ValueError", analysis |-> EmptyAnalysis, q |-> PyNone]
    ELSE ConsumeAnalysis(get_search_terms_from_gpt(OPENAI_API_KEY, llm), input)

\* results_df = pd.DataFrame(st.session_state.search_results)
results_df == DataFrame(search_results.v)

\* book_dict.get('isbn13') of card i: the text, nan when this book has no
\* isbn13 but another one has, None when no book has one.
CardIsbn(i) ==
    IF "isbn13" \in results_df.columns THEN results_df.rows[i].isbn13 ELSE PyNone

\* The widget key of the button of card i: f"find_{isbn_key}", isbn_key being
\* book_dict.get('isbn13', f"noisbn_{index}").
ButtonKey(i) ==
    IF "isbn13" \in results_df.columns
    THEN [isbn |-> results_df.rows[i].isbn13, noisbn |-> 0]
    ELSE [isbn |-> PyNone, noisbn |-> i]

\* The first card whose button key repeats an earlier one (st.button raises
\* DuplicateWidgetID there and the script run ends), 0 when the keys differ.
FirstRepeatedKey ==
    LET rep == {j \in 1..Len(search_results.v) :
                   \E i \in 1..(j - 1) : ButtonKey(i) = ButtonKey(j)}
    IN IF rep = {} THEN 0 ELSE CHOOSE j \in rep : \A k \in rep : j <= k

\* The cards are drawn (line 210) and drawing them ends the script run.
RenderStops == search_results.v # <<>> /\ FirstRepeatedKey # 0

\* A condition that forgets whether the lookup was done.
LookupDueWhileSelected == ~Falsy(selected_book_isbn)

\* Line 261.
LookupDue ==
    ~Falsy(selected_book_isbn) /\ library_locations.t = "NoneType" /\ loading

Project(df, cols) ==
    [columns |-> cols,
     rows |-> [i \in 1..Len(df.rows) |-> [c \in cols |-> df.rows[i][c]]]]

\* The two to_numeric lines and the dropna that follow them, in app.py
\* (277-279) and in render_map (28-30).
NumericLocations(df) ==
    dropna(NumericColumn(NumericColumn(df, "latitude"), "longitude"),
           {"latitude", "longitude"})

\* Lines 33-42 of render_map: what is drawn of the cleaned copy.
DrawMap(map_df) ==
    IF IsEmpty(map_df) THEN NoFrame
    ELSE Frame(Project(map_df, {"latitude", "longitude"}))

\* render_map(locations_df): the frame handed to st.map, NoFrame when the
\* function returns without drawing.
render_map(df) ==
    IF IsEmpty(df) \/ ~({"latitude", "longitude"} \subseteq df.columns) THEN NoFrame
    ELSE DrawMap(NumericLocations(df))

\* Lines 281-291: the rows left by dropna are de-duplicated and stored.  On
\* an empty frame drop_duplicates returns before it looks at the column.
StoreKept(kept) ==
    IF IsEmpty(kept)
    THEN [exc |-> None, frame |-> EmptyDataFrame, error |-> "no_valid_location"]
    ELSE IF "libCode" \notin kept.columns
         THEN [exc |-> "KeyError", frame |-> EmptyDataFrame, error |-> "lookup_error"]
         ELSE [exc |-> None, frame |-> drop_duplicates(kept, "libCode"), error |-> None]

\* Lines 277-279 on the frame of line 275: a column that no record carries
\* raises KeyError.
StoreFrame(df) ==
    IF ~({"latitude", "longitude"} \subseteq df.columns)
    THEN [exc |-> "KeyError", frame |-> EmptyDataFrame, error |-> "lookup_error"]
    ELSE StoreKept(NumericLocations(df))

\* Lines 273-291: the combined list made into the stored frame, and the
\* exception raised on the way.
StoreLibraries(libraries) ==
    IF libraries = <<>>
    THEN [exc |-> None, frame |-> EmptyDataFrame, error |-> "no_libraries"]
    ELSE StoreFrame(DataFrame(libraries))

Request(fn, arg, region) == [fn |-> fn, arg |-> arg, region |-> region]

Seoul == PyStr(<<"1", "1">>)
Gyeonggi == PyStr(<<"3", "1">>)

\* An except branch that keeps what the first region returned.
LookupFailedKeepsFirst(exc, seoul, gyeonggi, reqs) ==
    [exc |-> exc, frame |-> StoreLibraries(seoul).frame, error |-> "lookup_error",
     seoul |-> seoul, gyeonggi |-> gyeonggi, reqs |-> reqs]

\* Lines 293-296: the except branch of step 4.
LookupFailed(exc, seoul, gyeonggi, reqs) ==
    [exc |-> exc, frame |-> EmptyDataFrame, error |-> "lookup_error",
     seoul |-> seoul, gyeonggi |-> gyeonggi, reqs |-> reqs]

\* Lines 271-291 with both lists at hand.
LookupStored(st, seoul, gyeonggi, reqs) ==
    [exc |-> st.exc, frame |-> st.frame, error |-> st.error,
     seoul |-> seoul, gyeonggi |-> gyeonggi, reqs |-> reqs]

\* Line 270 and what follows it, r2 being the outcome of the second call.
LookupSecond(r1, r2, reqs) ==
    IF r2.raised # None THEN LookupFailed(r2.raised, r1.value, <<>>, reqs)
    ELSE LookupStored(StoreLibraries(r1.value \o r2.value), r1.value, r2.value, reqs)

\* Line 269 and what follows it, r1 being the outcome of the first call.
LookupFirst(r1, net31, req11, req31) ==
    IF r1.raised # None THEN LookupFailed(r1.raised, <<>>, <<>>, <<req11>>)
    ELSE LookupSecond(r1,
                      find_libraries_for_book(selected_book_isbn, NAROU_API_KEY,
                                              Gyeonggi, net31),
                      <<req11, req31>>)

\* Step 4 (lines 263-296) for the selected book, the network answering net11
\* to the first request and net31 to the second.
LookupStep(net11, net31) ==
    IF Falsy(NAROU_API_KEY) THEN LookupFailed("ValueError", <<>>, <<>>, <<>>)
    ELSE LookupFirst(find_libraries_for_book(selected_book_isbn, NAROU_API_KEY,
                                             Seoul, net11),
                     net31,
                     Request("find_libraries_for_book", selected_book_isbn, Seoul),
                     Request("find_libraries_for_book", selected_book_isbn, Gyeonggi))

----------------------------------------------------------------------------
(* The orchestrator driven by the user, the language model and the service *)

UserInputs == {<<>>, <<"u">>}

AppKeys == {PyNone, PyStr(<<"k">>)}

ListField(l) == [t |-> "list", items |-> l]
NoListField == [t |-> "absent", items |-> <<>>]

\* The reply objects of the language model.
ReplyObjects ==
    [keywords : {NoListField} \cup
                {ListField(l) : l \in {<<PyStr(<<>>)>>,
                                       <<PyStr(<<"a">>), PyStr(<<"b">>)>>,
                                       <<PyInt(<<"5">>)>>}},
     titles : {NoListField} \cup
              {ListField(l) : l \in {<<PyStr(<<"t">>)>>,
                                     <<PyStr(<<>>), PyStr(<<"t">>)>>}},
     narou_query : {PyStr(<<>>), PyStr(<<" ", "q">>), PyInt(<<"7">>)}]

NoReply == [keywords |-> NoListField, titles |-> NoListField, narou_query |-> PyNone]

\* What the language model call may do.
LanguageModel ==
    {[kind |-> "object", parsed_result |-> o] : o \in ReplyObjects}
    \cup {[kind |-> "wrapped", parsed_result |-> o] :
             o \in {x \in ReplyObjects : x.keywords.t = "absent" /\ x.titles.t = "absent"}}
    \cup {[kind |-> k, parsed_result |-> NoReply] : k \in {"raise", "json", "garbage"}}

\* The Book Records and Library Records of the service, as it writes them.
BookKinds ==
    {<<<<"bookname", <<"T">>>>, <<"isbn13", <<"9", "7", "8">>>>>>,
     <<<<"bookname", <<"U">>>>, <<"isbn13", <<"9", "7", "9">>>>>>,
     <<<<"bookname", <<"V">>>>>>}

LibraryKinds ==
    {<<<<"libCode", <<"A">>>>, <<"latitude", <<"3", "7", ".", "5">>>>,
       <<"longitude", <<"1", "2", "7", ".", "0">>>>>>,
     <<<<"libCode", <<"B">>>>, <<"latitude", <<"3", "7", ".", "5">>>>,
       <<"longitude", <<"1", "2", "7", ".", "0">>>>>>,
     <<<<"libCode", <<"A">>>>, <<"latitude", <<"i", "n", "v">>>>,
       <<"longitude", <<"1", "2", "7", ".", "0">>>>>>,
     <<<<"latitude", <<"3", "7", ".", "5">>>>, <<"longitude", <<"1", "2", "7", ".", "0">>>>>>}

ListsOf(S, n) == UNION {[1..k -> S] : k \in 0..n}

\* The failures of one request: a timeout, an exception that is no
\* RequestException, a 503 answer, an answer cut short.
BadNetwork(result_tag, item_tag) ==
    {Failed("requests.Timeout"), Failed("RuntimeError"), Answered(503, Str(<<>>)),
     Answered(200, Truncated(XmlOf(result_tag, item_tag, <<>>)))}

BookNetwork ==
    {Answered(200, XmlOf("docs", "doc", recs)) : recs \in ListsOf(BookKinds, MaxBooks)}
    \cup BadNetwork("docs", "doc")

LibraryNetwork ==
    {Answered(200, XmlOf("libs", "lib", recs)) : recs \in ListsOf(LibraryKinds, MaxLibs)}
    \cup BadNetwork("libs", "lib")

InitApp ==
    /\ pc = "idle"
    /\ doc = <<>>
    /\ xml_string = NoneArg
    /\ items = <<>>
    /\ raised = None
    /\ call = NoCall
    /\ response = NoResponse
    /\ http_calls = 0
    /\ NAROU_API_KEY \in AppKeys
    /\ OPENAI_API_KEY \in AppKeys
    /\ search_query = <<>>
    /\ search_results = NoList
    /\ selected_book_isbn = PyNone
    /\ library_locations = NoFrame
    /\ error_message = None
    /\ loading = FALSE
    /\ user_input = <<>>
    /\ gpt_analysis = EmptyAnalysis
    /\ narou_query = PyNone
    /\ libraries_seoul = <<>>
    /\ libraries_gyeonggi = <<>>
    /\ lookup_exc = None
    /\ requests = <<>>
    /\ displayed = NoFrame

\* The form is submitted with an empty text: line 147 is false.
SubmitEmpty ==
    /\ pc = "idle"
    /\ user_input' = <<>>
    /\ gpt_analysis' = EmptyAnalysis
    /\ narou_query' = PyNone
    /\ libraries_seoul' = <<>>
    /\ libraries_gyeonggi' = <<>>
    /\ lookup_exc' = None
    /\ requests' = <<>>
    /\ displayed' = NoFrame
    /\ pc' = "tail"
    /\ UNCHANGED <<clientVars, NAROU_API_KEY, OPENAI_API_KEY, search_query,
                   search_results, selected_book_isbn, library_locations,
                   error_message, loading>>

\* A submit that resets nothing of the earlier search.
ResetOnSubmitNothing ==
    UNCHANGED <<search_results, selected_book_isbn, library_locations>>

\* Lines 149-151: results, selection and locations of the earlier search are
\* reset.
ResetOnSubmit ==
    /\ search_results' = NoList
    /\ selected_book_isbn' = PyNone
    /\ library_locations' = NoFrame

\* The form is submitted with a text: the reset of lines 148-153, then steps
\* 1 and 2.
Submit ==
    /\ pc = "idle"
    /\ \E input \in UserInputs \ {<<>>}, llm \in LanguageModel :
         \E r \in {InterpretStep(input, llm)} :
         /\ user_input' = input
         /\ search_query' = input
         /\ ResetOnSubmit
         /\ error_message' = IF r.exc # None THEN "gpt_error" ELSE None
         /\ loading' = (r.exc = None)
         /\ gpt_analysis' = r.analysis
         /\ narou_query' = r.q
    /\ libraries_seoul' = <<>>
    /\ libraries_gyeonggi' = <<>>
    /\ lookup_exc' = None
    /\ requests' = <<>>
    /\ displayed' = NoFrame
    /\ pc' = "search"
    /\ UNCHANGED <<clientVars, NAROU_API_KEY, OPENAI_API_KEY>>

\* Step 3 (lines 185-206) of the same script run.
SearchStep ==
    /\ pc = "search"
    /\ \E net \in BookNetwork :
         IF ~Falsy(narou_query) /\ error_message = None
         THEN IF Falsy(NAROU_API_KEY)
              THEN /\ error_message' = "search_error"
                   /\ UNCHANGED <<search_results, requests>>
              ELSE \E r \in {search_books(NAROU_API_KEY, net)} :
                   /\ requests' = Append(requests, Request("search_books", narou_query, PyNone))
                   /\ search_results' = IF r.raised = None /\ r.value # <<>>
                                        THEN List(r.value) ELSE search_results
                   /\ error_message' = IF r.raised # None THEN "search_error"
                                       ELSE IF r.value # <<>> THEN error_message
                                       ELSE "no_results"
         ELSE /\ error_message' = IF error_message = None /\ Falsy(narou_query)
                                  THEN "no_query" ELSE error_message
              /\ UNCHANGED <<search_results, requests>>
    /\ loading' = FALSE
    /\ pc' = "tail"
    /\ UNCHANGED <<clientVars, NAROU_API_KEY, OPENAI_API_KEY, search_query,
                   selected_book_isbn, library_locations, user_input, gpt_analysis,
                   narou_query, libraries_seoul, libraries_gyeonggi, lookup_exc,
                   displayed>>

\* The button of card i is pressed (lines 251-255): the selection is stored
\* and the script is run again.
ClickFind ==
    /\ pc = "idle"
    /\ search_results.v # <<>>
    /\ \E i \in 1..Len(search_results.v) :
         /\ FirstRepeatedKey = 0 \/ i < FirstRepeatedKey
         /\ selected_book_isbn' = CardIsbn(i)
    /\ library_locations' = NoFrame
    /\ loading' = TRUE
    /\ libraries_seoul' = <<>>
    /\ libraries_gyeonggi' = <<>>
    /\ lookup_exc' = None
    /\ requests' = <<>>
    /\ displayed' = NoFrame
    /\ gpt_analysis' = EmptyAnalysis
    /\ narou_query' = PyNone
    /\ pc' = "tail"
    /\ UNCHANGED <<clientVars, NAROU_API_KEY, OPENAI_API_KEY, search_query,
                   search_results, error_message, user_input>>

\* The script is run again without any event.
Rerun ==
    /\ pc = "idle"
    /\ gpt_analysis' = EmptyAnalysis
    /\ narou_query' = PyNone
    /\ libraries_seoul' = <<>>
    /\ libraries_gyeonggi' = <<>>
    /\ lookup_exc' = None
    /\ requests' = <<>>
    /\ displayed' = NoFrame
    /\ pc' = "tail"
    /\ UNCHANGED <<clientVars, NAROU_API_KEY, OPENAI_API_KEY, search_query,
                   search_results, selected_book_isbn, library_locations,
                   error_message, loading, user_input>>

\* Drawing the cards raises and the script run ends before step 4.
RenderAbort ==
    /\ pc = "tail"
    /\ RenderStops
    /\ pc' = "idle"
    /\ UNCHANGED <<clientVars, appVars>>

\* Step 4 (lines 261-301): both lookups, the stored frame, st.rerun().
LookupRound ==
    /\ pc = "tail"
    /\ ~RenderStops
    /\ LookupDue
    /\ \E net11 \in LibraryNetwork, net31 \in LibraryNetwork :
         \E r \in {LookupStep(net11, net31)} :
         /\ library_locations' = Frame(r.frame)
         /\ error_message' = IF r.error # None THEN r.error ELSE error_message
         /\ libraries_seoul' = r.seoul
         /\ libraries_gyeonggi' = r.gyeonggi
         /\ lookup_exc' = r.exc
         /\ requests' = requests \o r.reqs
    /\ loading' = FALSE
    /\ pc' = "tail"
    /\ UNCHANGED <<clientVars, NAROU_API_KEY, OPENAI_API_KEY, search_query,
                   search_results, selected_book_isbn, user_input, gpt_analysis,
                   narou_query, displayed>>

\* The map (lines 306-324) closes a script run in which no lookup was due.
DisplayMap ==
    /\ pc = "tail"
    /\ ~RenderStops
    /\ ~LookupDue
    /\ displayed' = IF library_locations.t = "DataFrame"
                    THEN render_map(library_locations.v) ELSE NoFrame
    /\ pc' = "idle"
    /\ UNCHANGED <<clientVars, NAROU_API_KEY, OPENAI_API_KEY, search_query,
                   search_results, selected_book_isbn, library_locations,
                   error_message, loading, user_input, gpt_analysis, narou_query,
                   libraries_seoul, libraries_gyeonggi, lookup_exc, requests>>

NextApp ==
    \/ SubmitEmpty \/ Submit \/ SearchStep \/ ClickFind \/ Rerun
    \/ RenderAbort \/ LookupRound \/ DisplayMap

SpecApp == InitApp /\ [][NextApp]_vars

----------------------------------------------------------------------------
(* The normalizer called on one document *)

InitParse ==
    /\ pc = "write"
    /\ doc = <<Node(RootTag, 0, <<>>)>>
    /\ xml_string = NoneArg
    /\ items = <<>>
    /\ raised = None
    /\ call = NoCall
    /\ response = NoResponse
    /\ http_calls = 0
    /\ AppNotStarted

\* The service writes the next element of its response, in document order: a
\* child of the last element or of one of its ancestors.
AddElement ==
    /\ pc = "write"
    /\ Len(doc) < MaxNodes
    /\ \E p \in Ancestors(doc, Len(doc)), k \in NodeKinds :
         doc' = Append(doc, Node(k[1], p, k[2]))
    /\ UNCHANGED <<pc, xml_string, items, raised, call, response, http_calls, appVars>>

\* The response body arrives: whole, or cut short by up to MaxCut tokens.
Receive ==
    /\ pc = "write"
    /\ \E cut \in 0..MaxCut :
         xml_string' = Str(SubSeq(Serialize(doc), 1, Len(Serialize(doc)) - cut))
    /\ pc' = "call"
    /\ UNCHANGED <<doc, items, raised, call, response, http_calls, appVars>>

\* A caller passes something that is no string.
ReceiveNone ==
    /\ pc = "write"
    /\ Len(doc) = 1
    /\ xml_string' = NoneArg
    /\ pc' = "call"
    /\ UNCHANGED <<doc, items, raised, call, response, http_calls, appVars>>

\* items = _parse_xml_response(xml_string, 'docs', 'doc')
CallParse ==
    /\ pc = "call"
    /\ LET r == _parse_xml_response(xml_string, GroupTag, ItemTag) IN
         /\ items' = r.value
         /\ raised' = r.raised
    /\ pc' = "done"
    /\ UNCHANGED <<doc, xml_string, call, response, http_calls, appVars>>

NextParse == AddElement \/ Receive \/ ReceiveNone \/ CallParse

SpecParse == InitParse /\ [][NextParse]_vars

----------------------------------------------------------------------------
(* What the normalizer is to return, read off the element tree the document *)
(* was written from                                                         *)

Kids(t, e) == {i \in 1..Len(t) : t[i].parent = e}

ItemKids(t, g) == {i \in Kids(t, g) : t[i].tag = ItemTag}

\* The items that have at least one child field.
Kept(t, g) == {i \in ItemKids(t, g) : Kids(t, i) # {}}

\* s without its leading and trailing whitespace.
Trimmed(s) ==
    CHOOSE r \in {SubSeq(s, a, b) : a \in 1..(Len(s) + 1), b \in 0..Len(s)} :
        /\ \E a \in 1..(Len(s) + 1), b \in 0..Len(s) :
              /\ r = SubSeq(s, a, b)
              /\ \A i \in 1..Len(s) : (i < a \/ i > b) => s[i] \in WS
        /\ r # <<>> => (r[1] \notin WS /\ r[Len(r)] \notin WS)

\* The field mapping of item e: each child's tag to its trimmed text, the
\* later child winning among children of one tag.
RecordOf(t, e) ==
    [k \in {t[c].tag : c \in Kids(t, e)} |->
        LET last == CHOOSE c \in Kids(t, e) :
                        /\ t[c].tag = k
                        /\ \A d \in Kids(t, e) : t[d].tag = k => d <= c
        IN Trimmed(t[last].text)]

\* Position of element i among the elements of S, in document order.
Rank(S, i) == Cardinality({j \in S : j <= i})

\* rs holds exactly the field mappings of the kept items of group g, in
\* document order.
IsRecordsOf(rs, t, g) ==
    /\ Len(rs) = Cardinality(Kept(t, g))
    /\ \A i \in Kept(t, g) : rs[Rank(Kept(t, g), i)] = RecordOf(t, i)

\* The document handed to the normalizer is the whole text of doc.
WellFormed == xml_string = Str(Serialize(doc))

\* The group element among the immediate children of the root: the first one
\* named GroupTag, the root when there is none.
DirectGroup(t) ==
    IF \E i \in Kids(t, 1) : t[i].tag = GroupTag
    THEN CHOOSE i \in Kids(t, 1) :
            t[i].tag = GroupTag /\ \A j \in Kids(t, 1) : t[j].tag = GroupTag => i <= j
    ELSE 1

\* The first element named GroupTag anywhere below the root, the root when
\* no element of the document has that name.
AnyGroup(t) ==
    IF \E i \in 2..Len(t) : t[i].tag = GroupTag
    THEN CHOOSE i \in 2..Len(t) :
            t[i].tag = GroupTag /\ \A j \in 2..Len(t) : t[j].tag = GroupTag => i <= j
    ELSE 1

\* C1: for a well-formed document with N item elements under its group
\* element the normalizer returns, without raising, one field mapping per
\* item in document order, the items without child fields left out: N minus
\* the omitted ones, relative order preserved.
C1_OneRecordPerItem ==
    (pc = "done" /\ WellFormed) =>
        LET g == DirectGroup(doc)
            N == Cardinality(ItemKids(doc, g))
            omitted == Cardinality(ItemKids(doc, g) \ Kept(doc, g))
        IN /\ raised = None
           /\ Len(items) = N - omitted
           /\ \A i \in Kept(doc, g) : items[Rank(Kept(doc, g), i)] = RecordOf(doc, i)

\* C1 witness: a group with two items, one of them without child fields,
\* normalized to one record.
C1_Witness ==
    /\ pc = "done" /\ WellFormed
    /\ DirectGroup(doc) # 1
    /\ Cardinality(ItemKids(doc, DirectGroup(doc))) = 2
    /\ Cardinality(Kept(doc, DirectGroup(doc))) = 1
    /\ Len(items) = 1

\* C2: for a document that is not well formed, and for an argument that is
\* no document at all, the normalizer returns the empty sequence and raises
\* nothing; no item read before the failure is returned.
C2_MalformedGivesEmpty ==
    (pc = "done" /\ ~WellFormed) => (items = <<>> /\ raised = None)

\* C2 witness: a document cut off after a complete item with a field.
C2_Witness ==
    /\ pc = "done" /\ ~WellFormed
    /\ xml_string.type = "str"
    /\ Kept(doc, 1) # {}
    /\ \E i \in 1..Len(xml_string.v) : xml_string.v[i] = Close(ItemTag)
    /\ items = <<>>

\* C3 as stated: when no element of the document is named GroupTag, one
\* record is returned per item element that is an immediate child of the root.
C3_OneRecordPerRootItem ==
    (pc = "done" /\ WellFormed /\ \A i \in 1..Len(doc) : doc[i].tag # GroupTag) =>
        Len(items) = Cardinality(ItemKids(doc, 1))

\* C3 amended: when no element of the document is named GroupTag, the root
\* is the group: one record is returned, in document order, per item element
\* that is an immediate child of the root and has at least one child field.
C3_RootFallback ==
    (pc = "done" /\ WellFormed /\ \A i \in 1..Len(doc) : doc[i].tag # GroupTag) =>
        IsRecordsOf(items, doc, 1)

\* C3 witness: a root holding two items with fields and no group element,
\* normalized to two records.
C3_Witness ==
    /\ pc = "done" /\ WellFormed
    /\ \A i \in 1..Len(doc) : doc[i].tag # GroupTag
    /\ Cardinality(Kept(doc, 1)) = 2
    /\ Len(items) = 2

\* C4 as stated: the items are taken from the first element named GroupTag
\* at any depth below the root, and from the root only when no element of the
\* document has that name.
C4_GroupAnywhere ==
    (pc = "done" /\ WellFormed) => IsRecordsOf(items, doc, AnyGroup(doc))

\* C4 amended: the items are taken from the first immediate child of the
\* root named GroupTag, and from the root whenever no immediate child of the
\* root has that name, also when such an element lies deeper in the document.
C4_GroupIsChildOfRoot ==
    (pc = "done" /\ WellFormed) =>
        /\ (\E i \in Kids(doc, 1) : doc[i].tag = GroupTag) =>
               /\ doc[DirectGroup(doc)].parent = 1
               /\ IsRecordsOf(items, doc, DirectGroup(doc))
        /\ (\A i \in Kids(doc, 1) : doc[i].tag # GroupTag) =>
               IsRecordsOf(items, doc, 1)

\* C4 witness: a group element with an item lies two levels below the root,
\* no child of the root is a group, and the items of the root were returned.
C4_Witness ==
    /\ pc = "done" /\ WellFormed
    /\ AnyGroup(doc) # 1 /\ DirectGroup(doc) = 1
    /\ Kept(doc, AnyGroup(doc)) # {}
    /\ items = <<>>

----------------------------------------------------------------------------
(* The catalog client called with any arguments, against any network *)

Keys == {PyNone, PyStr(<<>>), PyStr(<<"k">>)}
Isbns == {PyNone, PyStr(<<>>), PyStr(<<"9", "7", "8">>)}
Regions == {PyStr(<<>>), PyStr(<<"1", "1">>), PyStr(<<"3", "1">>)}
Statuses == {200, 204, 304, 404, 503}

OneField == <<<<"name", <<" ", "x">>>>>>

\* The response bodies a well-formed answer is drawn from.
GoodBodies(result_tag, item_tag) ==
    {XmlOf(result_tag, item_tag, recs) : recs \in {<<>>, <<OneField>>, <<OneField, OneField>>}}

\* The same bodies cut short, and the empty body.
BadBodies(result_tag, item_tag) ==
    {Truncated(x) : x \in GoodBodies(result_tag, item_tag)} \cup {Str(<<>>)}

\* What the network may do with one GET request.
Network(result_tag, item_tag) ==
    {Failed(e) : e \in {"requests.ConnectionError", "requests.Timeout", "RuntimeError"}}
    \cup {Answered(st, x) : st \in Statuses,
                             x \in GoodBodies(result_tag, item_tag)
                                   \cup BadBodies(result_tag, item_tag)}

InitClient ==
    /\ pc = "idle"
    /\ doc = <<>>
    /\ xml_string = NoneArg
    /\ items = <<>>
    /\ raised = None
    /\ call = NoCall
    /\ response = NoResponse
    /\ http_calls = 0
    /\ AppNotStarted

\* The outcome r of a call, with the network's answer net, becomes the state.
Outcome(r, net) ==
    /\ items' = r.value
    /\ raised' = r.raised
    /\ http_calls' = http_calls + r.gets
    /\ response' = IF r.gets = 0 THEN NoResponse ELSE net
    /\ pc' = "done"
    /\ UNCHANGED <<doc, xml_string, appVars>>

CallSearchBooks ==
    /\ http_calls < MaxCalls
    /\ \E api_key \in Keys, net \in Network("docs", "doc") :
         /\ call' = [fn |-> "search_books", api_key |-> api_key,
                     isbn13 |-> PyNone, region_code |-> PyNone]
         /\ Outcome(search_books(api_key, net), net)

CallFindLibraries ==
    /\ http_calls < MaxCalls
    /\ \E isbn13 \in Isbns, api_key \in Keys, region_code \in Regions,
          net \in Network("libs", "lib") :
         /\ call' = [fn |-> "find_libraries_for_book", api_key |-> api_key,
                     isbn13 |-> isbn13, region_code |-> region_code]
         /\ Outcome(find_libraries_for_book(isbn13, api_key, region_code, net), net)

NextClient == CallSearchBooks \/ CallFindLibraries

SpecClient == InitClient /\ [][NextClient]_vars

\* The call was made with an empty credential, or a holdings lookup with an
\* empty identifier or region code.
EmptyArgument(c) ==
    \/ c.fn = "search_books" /\ Falsy(c.api_key)
    \/ /\ c.fn = "find_libraries_for_book"
       /\ (Falsy(c.api_key) \/ Falsy(c.isbn13) \/ Falsy(c.region_code))

\* C5: a search_books call with an empty credential, and a
\* find_libraries_for_book call with an empty credential, identifier or
\* region code, ends in ValueError and issues no request: the number of GET
\* calls is the same after the call as before it.
C5_NoRequestOnMissingArgument ==
    [][(pc' = "done" /\ EmptyArgument(call')) =>
          (raised' = "ValueError" /\ http_calls' = http_calls)]_vars

\* C5 witness: after a request had been issued, a holdings lookup with an
\* empty region code was rejected.
C5_Witness ==
    /\ pc = "done"
    /\ call.fn = "find_libraries_for_book"
    /\ ~Falsy(call.api_key) /\ ~Falsy(call.isbn13) /\ call.region_code = PyStr(<<>>)
    /\ raised = "ValueError"
    /\ http_calls = 1

TransportFailure(r) ==
    r.kind = "raise" /\ r.exc \in {"requests.ConnectionError", "requests.Timeout"}

MalformedAnswer(r) ==
    /\ r.kind = "response"
    /\ r.status < 400
    /\ r.text \in BadBodies("docs", "doc") \cup BadBodies("libs", "lib")

\* C7: only ValueError and ConnectionError leave the two functions; a
\* malformed response body, and any other exception raised during the call,
\* ends in the empty list being returned.
C7_OnlyTwoErrorsLeave ==
    pc = "done" =>
        /\ raised \in {None, "ValueError", "ConnectionError"}
        /\ (MalformedAnswer(response)
             \/ (response.kind = "raise" /\ ~IsRequestException(response.exc))) =>
               (raised = None /\ items = <<>>)

\* C7 witness: the request raised an exception that is no RequestException
\* and the call returned the empty list.
C7_Witness ==
    /\ pc = "done"
    /\ response.kind = "raise" /\ response.exc = "RuntimeError"
    /\ raised = None /\ items = <<>>

----------------------------------------------------------------------------
(* Claims about the orchestrator *)

\* The texts that are decimal numerals among the coordinates the service
\* writes.
ParseableTexts == {<<"3", "7", ".", "5">>, <<"1", "2", "7", ".", "0">>}

\* The record carries a parseable latitude and a parseable longitude.
Locatable(rec) ==
    /\ "latitude" \in DOMAIN rec /\ rec.latitude \in ParseableTexts
    /\ "longitude" \in DOMAIN rec /\ rec.longitude \in ParseableTexts

\* The library code of a record as a cell of the frame.
CodeOf(rec) == IF "libCode" \in DOMAIN rec THEN PyStr(rec.libCode) ELSE NaN

\* The library codes the records of a result set carry.
CodesIn(list) == {list[i].libCode : i \in {k \in 1..Len(list) : "libCode" \in DOMAIN list[k]}}

\* The records of both regions in the order of the concatenation.
Combined == libraries_seoul \o libraries_gyeonggi

\* The rows stored in library_locations.
StoredRows == library_locations.v.rows

\* Both lookups of this selection returned and step 4 raised no exception.
RoundReturned ==
    /\ library_locations.t = "DataFrame"
    /\ Len(requests) = 2
    /\ lookup_exc = None

\* No two rows carry the same library code.
UniqueByCode(rows) ==
    \A i, j \in 1..Len(rows) : i # j => rows[i].libCode # rows[j].libCode

\* Number of rows that carry the code.
TimesStored(rows, code) == Cardinality({i \in 1..Len(rows) : rows[i].libCode = PyStr(code)})

\* C8 as stated: after both lookups returned and the results were
\* concatenated and de-duplicated, no two stored records share a libCode and
\* a code that occurs in both regions' result sets is stored exactly once.
C8_CommonCodeExactlyOnce ==
    RoundReturned =>
        /\ UniqueByCode(StoredRows)
        /\ \A code \in CodesIn(libraries_seoul) \cap CodesIn(libraries_gyeonggi) :
              TimesStored(StoredRows, code) = 1

\* C8 amended: after both lookups returned and step 4 raised no exception,
\* no two stored records share a libCode; a code that occurs in both
\* regions' result sets is stored exactly once when at least one record
\* carrying it has a parseable latitude and longitude, and not at all
\* otherwise.
C8_UniqueByCode ==
    RoundReturned =>
        /\ UniqueByCode(StoredRows)
        /\ \A code \in CodesIn(libraries_seoul) \cap CodesIn(libraries_gyeonggi) :
              TimesStored(StoredRows, code) =
                  IF \E i \in 1..Len(Combined) :
                        CodeOf(Combined[i]) = PyStr(code) /\ Locatable(Combined[i])
                  THEN 1 ELSE 0

\* C8 witness: both regions returned a locatable record of library A and one
\* row is stored for it.
C8_Witness ==
    /\ RoundReturned
    /\ Len(libraries_seoul) = 1 /\ Locatable(libraries_seoul[1])
    /\ Len(libraries_gyeonggi) = 1 /\ Locatable(libraries_gyeonggi[1])
    /\ CodeOf(libraries_seoul[1]) = PyStr(<<"A">>)
    /\ CodeOf(libraries_gyeonggi[1]) = PyStr(<<"A">>)
    /\ Len(StoredRows) = 1
    /\ StoredRows[1].libCode = PyStr(<<"A">>)

\* The cell is a number.
IsNumber(cell) == cell.t = "float" /\ cell # NaN

\* Every row of the frame has a number as latitude and as longitude.
NumericRows(f) ==
    f.t = "DataFrame" =>
        \A i \in 1..Len(f.v.rows) :
            IsNumber(f.v.rows[i].latitude) /\ IsNumber(f.v.rows[i].longitude)

\* The positions of the locatable records in the concatenation.
LocatableAt == {i \in 1..Len(Combined) : Locatable(Combined[i])}

\* The k-th smallest element of a set of positions.
Nth(S, k) == CHOOSE i \in S : Cardinality({j \in S : j < i}) = k - 1

\* Both lookups of this selection returned.
BothReturned ==
    /\ library_locations.t = "DataFrame"
    /\ Len(requests) = 2
    /\ lookup_exc \in {None, "KeyError"}

\* C9 as stated: every record stored or drawn has a parseable latitude and
\* longitude, and once both lookups returned the records stored are, in
\* order, all the records that pass both.
C9_AllLocatableKept ==
    /\ NumericRows(library_locations)
    /\ NumericRows(displayed)
    /\ BothReturned =>
          /\ Len(StoredRows) = Cardinality(LocatableAt)
          /\ \A k \in 1..Len(StoredRows) :
                StoredRows[k].libCode = CodeOf(Combined[Nth(LocatableAt, k)])

\* C9 witness: the only record returned has latitude 37.5 and longitude
\* 127.0 and carries no library code; step 4 raised KeyError and nothing is
\* stored.
C9_Witness ==
    /\ BothReturned
    /\ libraries_seoul = <<>>
    /\ Len(libraries_gyeonggi) = 1
    /\ Locatable(libraries_gyeonggi[1])
    /\ "libCode" \notin DOMAIN libraries_gyeonggi[1]
    /\ lookup_exc = "KeyError"
    /\ StoredRows = <<>>
    /\ error_message = "lookup_error"

\* The keywords and titles of the analysis are strings.
StringLists(g) ==
    /\ \A i \in 1..Len(g.keywords) : g.keywords[i].t = "str"
    /\ \A i \in 1..Len(g.titles) : g.titles[i].t = "str"

\* The query by strict priority: the refined query, else the joined
\* keywords, else the first title, else the raw input, each taken when the
\* ones before it gave nothing.
ByPriority(g, input) ==
    LET q1 == IF Falsy(g.narou_query) THEN PyStr(Join(g.keywords)) ELSE g.narou_query
        q2 == IF Falsy(q1) /\ g.titles # <<>> THEN g.titles[1] ELSE q1
    IN IF Falsy(q2) THEN PyStr(input) ELSE q2

\* C10 as stated: when steps 1 and 2 raised nothing, the query handed to the
\* catalog search is chosen by strict priority: refined query, joined
\* keywords, first candidate title, raw input.
C10_StrictPriority ==
    (pc = "search" /\ error_message = None /\ StringLists(gpt_analysis)) =>
        narou_query = ByPriority(gpt_analysis, user_input)

\* C10 witness: the refined query is empty, the keyword list [''] joins to
\* nothing, the titles are ['t'], and the raw input was chosen.
C10_Witness ==
    /\ pc = "search" /\ error_message = None
    /\ gpt_analysis.narou_query = PyStr(<<>>)
    /\ gpt_analysis.keywords = <<PyStr(<<>>)>>
    /\ gpt_analysis.titles = <<PyStr(<<"t">>)>>
    /\ narou_query = PyStr(user_input)
    /\ user_input = <<"u">>

\* The isbn13 values the Book Records of the current search results carry.
ListedIsbns ==
    {PyStr(search_results.v[i].isbn13) :
        i \in {k \in 1..Len(search_results.v) : "isbn13" \in DOMAIN search_results.v[k]}}

\* The holdings lookups issued while handling the last event.
LookupsIssued ==
    {k \in 1..Len(requests) : requests[k].fn = "find_libraries_for_book"}

\* C11 as stated: a holdings lookup is only ever attempted with an
\* identifier that is the isbn13 of a Book Record of the search results held
\* in session state.
C11_LookupOnlyForListedIsbn ==
    \A k \in LookupsIssued :
        search_results.t = "list" /\ requests[k].arg \in ListedIsbns

\* C11 witness: the results hold a book with isbn13 and a book without, the
\* button of the book without was pressed, and the lookup was issued with
\* nan.
C11_Witness ==
    /\ LookupsIssued # {}
    /\ selected_book_isbn = NaN
    /\ \A k \in LookupsIssued : requests[k].arg = NaN
    /\ NaN \notin ListedIsbns
    /\ ListedIsbns # {}

\* The mapping has the three fields, the lists hold strings only and the
\* query is a string without leading or trailing whitespace.
FixedShape(g) ==
    /\ DOMAIN g = {"keywords", "titles", "narou_query"}
    /\ StringLists(g)
    /\ g.narou_query.t = "str"
    /\ Strip(g.narou_query.v) = g.narou_query.v

\* The language model gave no JSON object to take the fields from.
AnalysisFailed(llm) == llm.kind \notin {"object", "wrapped"}

\* C12 as stated: with a non-empty credential get_search_terms_from_gpt
\* raises for no outcome of the language model, what it returned to the
\* submit being handled has the fixed shape (lists of strings, a stripped
\* string), and on failure it returns empty lists and the empty string.
C12_FixedShapeResult ==
    ~Falsy(OPENAI_API_KEY) =>
        /\ pc = "search" => FixedShape(gpt_analysis)
        /\ \A llm \in LanguageModel :
              /\ get_search_terms_from_gpt(OPENAI_API_KEY, llm).raised = None
              /\ AnalysisFailed(llm) =>
                    get_search_terms_from_gpt(OPENAI_API_KEY, llm).value = EmptyAnalysis

\* C12 witness: the reply object held the keyword list [5] and the mapping
\* returned to the submit holds it unchanged.
C12_Witness ==
    /\ pc = "search"
    /\ ~Falsy(OPENAI_API_KEY)
    /\ gpt_analysis.keywords = <<PyInt(<<"5">>)>>
    /\ gpt_analysis.titles = <<PyStr(<<"t">>)>>

\* The regions of the lookups issued while handling the last event, in the
\* order of the calls.
RegionsAsked(reqs) == [k \in 1..Len(reqs) |-> reqs[k].region]

\* This step is a lookup round: step 4 ran for the selection.
RoundStep == pc = "tail" /\ pc' = "tail" /\ library_locations' # library_locations

\* Of the locatable records, the first position of each library code.
FirstOfCodeAt ==
    {i \in LocatableAt :
        \A j \in LocatableAt : j < i => CodeOf(Combined[j]) # CodeOf(Combined[i])}

\* The rows stored follow the order of the concatenation, region '11' first.
StoredInCallOrder ==
    RoundReturned =>
        /\ Len(StoredRows) = Cardinality(FirstOfCodeAt)
        /\ \A k \in 1..Len(StoredRows) :
              StoredRows[k].libCode = CodeOf(Combined[Nth(FirstOfCodeAt, k)])

\* The lookups issued for a selection are one call for region '11', then at
\* most one for region '31'; once they are issued library_locations is
\* non-None and loading is false.
RoundIssued ==
    LookupsIssued # {} =>
        /\ RegionsAsked(requests) \in {<<Seoul>>, <<Seoul, Gyeonggi>>}
        /\ library_locations.t = "DataFrame"
        /\ ~loading

\* This step is a submit with a text.
SearchSubmitted == pc = "idle" /\ pc' = "search"

\* This step is the press of the button of a card: a new selection.
ButtonPressed ==
    /\ pc = "idle" /\ pc' = "tail"
    /\ \E i \in 1..Len(search_results.v) : selected_book_isbn' = CardIsbn(i)
    /\ library_locations' = NoFrame
    /\ loading'

\* C13: a lookup is issued only in a round that starts with a selection,
\* library_locations None and loading true; the round calls each region at
\* most once, '11' before '31', stores the results in that order, and on
\* every path leaves library_locations non-None and loading false; after
\* it library_locations stays non-None, so that no further round runs,
\* until a button is pressed or a search is submitted.
C13_OneRoundPerSelection ==
    /\ [](RoundIssued /\ StoredInCallOrder)
    /\ [][/\ (requests' # requests /\ requests' # <<>>
                /\ requests'[Len(requests')].fn = "find_libraries_for_book") => RoundStep
          /\ RoundStep =>
                /\ ~Falsy(selected_book_isbn) /\ library_locations.t = "NoneType" /\ loading
                /\ requests = <<>>
                /\ library_locations'.t = "DataFrame" /\ ~loading'
                /\ selected_book_isbn' = selected_book_isbn
          /\ (library_locations.t = "DataFrame" /\ library_locations' # library_locations) =>
                (SearchSubmitted \/ ButtonPressed)]_vars

\* C13 witness: region '11' returned library A, region '31' library B, both
\* were called once in that order, A is stored before B and loading is off.
C13_Witness ==
    /\ RoundReturned
    /\ RegionsAsked(requests) = <<Seoul, Gyeonggi>>
    /\ Len(libraries_seoul) = 1 /\ CodeOf(libraries_seoul[1]) = PyStr(<<"A">>)
    /\ Len(libraries_gyeonggi) = 1 /\ CodeOf(libraries_gyeonggi[1]) = PyStr(<<"B">>)
    /\ Len(StoredRows) = 2
    /\ StoredRows[1].libCode = PyStr(<<"A">>)
    /\ StoredRows[2].libCode = PyStr(<<"B">>)
    /\ ~loading
    /\ pc = "idle"

\* The session state of lines 121-132.
session_state ==
    <<search_query, search_results, selected_book_isbn, library_locations,
      error_message, loading>>

\* C14: a submit with a text resets results, selection, locations and
\* error before any request is made; when the search of that submit has
\* ended, the selection and the locations are still None, the results are
\* None or the ones this search returned, and the error is None or one this
\* submit set.  A submit without text changes no session state and issues no
\* request, neither at once nor in the rest of its script run.
C14_SubmitResets ==
    [][/\ (pc = "idle" /\ pc' = "search") =>
             /\ search_results' = NoList
             /\ selected_book_isbn' = PyNone
             /\ library_locations' = NoFrame
             /\ error_message' = (IF loading' THEN None ELSE "gpt_error")
             /\ requests' = <<>>
       /\ pc = "search" =>
             /\ selected_book_isbn' = PyNone
             /\ library_locations' = NoFrame
             /\ LookupsIssued' = {}
             /\ search_results' # NoList =>
                   /\ error_message' = None
                   /\ Len(requests') = 1 /\ requests'[1].fn = "search_books"
             /\ search_results' = NoList =>
                   error_message' \in {"gpt_error", "search_error", "no_results", "no_query"}
       /\ SubmitEmpty =>
             /\ session_state' = session_state
             /\ requests' = <<>>
             /\ ~(LookupDue' /\ ~RenderStops')]_vars

\* C14 witness: the search of a submit has ended without results; results,
\* selection and locations are None and the error is the one of this search.
C14_Witness ==
    /\ pc = "tail"
    /\ Len(requests) = 1 /\ requests[1].fn = "search_books"
    /\ search_results = NoList
    /\ selected_book_isbn = PyNone
    /\ library_locations = NoFrame
    /\ error_message = "no_results"

\* The call of find_libraries_for_book for the selection raises when the
\* network answers net.
LookupRaises(region, net) ==
    find_libraries_for_book(selected_book_isbn, NAROU_API_KEY, region, net).raised # None

\* C15: when the lookup of a region raised, library_locations is the empty
\* table, error_message is set and nothing is drawn, whatever the other
\* region returned or would have returned; when the call for region '11'
\* raises, no call for region '31' is issued.
C15_RaisedLookupStoresNothing ==
    /\ lookup_exc \in {"ValueError", "ConnectionError"} =>
          /\ library_locations = Frame(EmptyDataFrame)
          /\ error_message = "lookup_error"
          /\ displayed = NoFrame
    /\ (pc = "tail" /\ LookupDue /\ ~RenderStops) =>
          \A net11 \in LibraryNetwork :
              IF LookupRaises(Seoul, net11)
              THEN \A net31 \in LibraryNetwork :
                      /\ RegionsAsked(LookupStep(net11, net31).reqs) = <<Seoul>>
                      /\ LookupStep(net11, net31).frame = EmptyDataFrame
                      /\ LookupStep(net11, net31).error = "lookup_error"
              ELSE \A net31 \in {n \in LibraryNetwork : LookupRaises(Gyeonggi, n)} :
                      /\ RegionsAsked(LookupStep(net11, net31).reqs) = <<Seoul, Gyeonggi>>
                      /\ LookupStep(net11, net31).frame = EmptyDataFrame
                      /\ LookupStep(net11, net31).error = "lookup_error"

\* C15 witness: region '11' returned a locatable record, the call for
\* region '31' raised, and the empty table and the error are stored.
C15_Witness ==
    /\ lookup_exc = "ConnectionError"
    /\ RegionsAsked(requests) = <<Seoul, Gyeonggi>>
    /\ Len(libraries_seoul) = 1 /\ Locatable(libraries_seoul[1])
    /\ "libCode" \in DOMAIN libraries_seoul[1]
    /\ library_locations = Frame(EmptyDataFrame)
    /\ error_message = "lookup_error"

\* The requests made while handling the event are one call of search_books
\* with the query chosen.
SearchIssued(reqs, q) ==
    /\ Len(reqs) = 1
    /\ reqs[1].fn = "search_books"
    /\ reqs[1].arg = q

\* After steps 1 and 2: they raised nothing exactly when no error is set
\* (line 179 sets it in the except branch, line 152 reset it before).
InterpretationRaised == error_message # None

\* What C16 says of a submit whether or not the catalog credential is set:
\* if steps 1 and 2 raised, the error stays, no request is made and the
\* results stay None; if not, the query is non-empty; the 'no valid search
\* term' branch is not taken.
SearchStepCommon ==
    /\ InterpretationRaised =>
          /\ error_message' = error_message
          /\ requests' = <<>>
          /\ search_results' = NoList
    /\ ~InterpretationRaised => ~Falsy(narou_query)
    /\ error_message' # "no_query"

\* C16 as stated: on a submit search_books is issued if and only if steps 1
\* and 2 raised no exception, with a non-empty query; when they raised, the
\* error is set, no request is made and the results stay None; the 'no valid
\* search term' branch is never taken.
C16_SearchIffInterpreted ==
    [][pc = "search" =>
          /\ SearchIssued(requests', narou_query) <=> ~InterpretationRaised
          /\ SearchStepCommon]_vars

\* C16 amended: on a submit search_books is issued if and only if steps 1
\* and 2 raised no exception and the catalog credential is set, with a
\* non-empty query; when steps 1 and 2 raised, or the catalog credential is
\* missing, an error is set, no request is made and the results stay None;
\* the 'no valid search term' branch is never taken.
C16_SearchIffInterpretedAndKey ==
    [][pc = "search" =>
          /\ SearchIssued(requests', narou_query) <=>
                (~InterpretationRaised /\ ~Falsy(NAROU_API_KEY))
          /\ (~InterpretationRaised /\ Falsy(NAROU_API_KEY)) =>
                /\ error_message' = "search_error"
                /\ requests' = <<>>
                /\ search_results' = NoList
          /\ SearchStepCommon]_vars

\* C16 witness: steps 1 and 2 raised nothing and chose a query, the catalog
\* credential is missing, and step 3 ended with an error and without a
\* request.
C16_Witness ==
    /\ pc = "tail"
    /\ ~Falsy(OPENAI_API_KEY)
    /\ Falsy(NAROU_API_KEY)
    /\ ~Falsy(narou_query)
    /\ error_message = "search_error"
    /\ requests = <<>>
    /\ search_results = NoList

====
